---- MODULE Spec2Model ----
(***************************************************************************)
(* Model of src/app.py, the "NLP Fundamentals Explorer" Streamlit script.  *)
(*                                                                         *)
(* The script is executed top to bottom on every (re)run: it provisions    *)
(* six NLTK resources, reports a status, instantiates the NLP tools, reads *)
(* the text area and, for a non-empty text, renders six processing stages. *)
(* An exception nobody catches ends the run (pc = "aborted").              *)
(*                                                                         *)
(* Strings are sequences of one-character strings, so that splitting,      *)
(* lowercasing, isalnum and joining are computed character by character.   *)
(* The NLTK calls (find, download, word_tokenize, stem, lemmatize,         *)
(* pos_tag, ne_chunk, stopwords.words) are the external toolkit: each is   *)
(* modelled by a small function of the same shape, and raises LookupError  *)
(* when the resource it loads is not in the local resource cache.          *)
(***************************************************************************)
EXTENDS Naturals, Sequences, FiniteSets

VARIABLES
    cache,              \* resources present in the local nltk_data cache
    warm,               \* resources a previous run of the script fetched successfully
    typed,              \* content of the text area widget
    pc,                 \* position of the running script
    idx,                \* position of the `for resource in resources` loop
    calls,              \* arguments of the download_nltk_resource calls of this run
    results,            \* their return values
    fetches,            \* nltk.download calls of this run: [name, outcome]
    all_success,        \* line 44
    status_msg,         \* st.success / st.warning of lines 50-53
    stop_words,         \* line 58
    user_text,          \* line 68
    tokens,             \* TokenSequence
    tokenizer_failed,   \* the except branch of lines 87-92 was taken
    filtered_tokens,    \* FilteredTokenSequence
    stemmed_tokens,     \* StemmedSequence
    lemmatized_tokens,  \* LemmatizedSequence
    pos_tagged_tokens,  \* TaggedSequence
    tagger_failed,      \* the except branch of lines 142-146 was taken
    ner_tree,           \* EntityTree: the children of the root
    named_entities,     \* NamedEntityList
    page,               \* rendered sections: [section, content]
    raised              \* the exception that ended the run, or "none"

vars == <<cache, warm, typed, pc, idx, calls, results, fetches, all_success,
          status_msg, stop_words, user_text, tokens, tokenizer_failed,
          filtered_tokens, stemmed_tokens, lemmatized_tokens,
          pos_tagged_tokens, tagger_failed, ner_tree, named_entities, page,
          raised>>

provisionVars == <<idx, calls, results, fetches, all_success, status_msg>>
pipelineVars == <<user_text, tokens, tokenizer_failed, filtered_tokens,
                  stemmed_tokens, lemmatized_tokens, pos_tagged_tokens,
                  tagger_failed, ner_tree, named_entities>>

----------------------------------------------------------------------------
(* Bounds and alphabets *)

MaxTextLen == 4

Whitespace == {" "}
Upper == {"A"}
Letters == {"a", "s", "A"}
Punct == {"."}
Chars == Letters \cup Punct \cup Whitespace

Texts == UNION {[1..n -> Chars] : n \in 0..MaxTextLen}

\* Scaled-down stand-in for the default sentence of the text area, and the
\* texts a user submits in the whole-program specification.
DefaultText == <<"A", "a", " ", "a", ".">>
SampleTexts == {<<>>, DefaultText}

----------------------------------------------------------------------------
(* Resource provisioning *)

resources == <<"punkt", "stopwords", "wordnet", "averaged_perceptron_tagger",
               "maxent_ne_chunker", "words">>

Resources == {resources[i] : i \in 1..Len(resources)}

\* Outcomes of nltk.download(name, quiet=True): the resource is stored and
\* True returned; nothing is stored and False is returned; an exception.
FetchOutcomes == {"ok", "false", "raise"}

\* nltk.data.find: succeeds iff the resource is in the cache, else LookupError.
nltk_data_find(resource_name, c) == resource_name \in c

\* Mutant: the presence check is skipped and the resource always fetched.
download_always(resource_name, c, outcome) ==
    IF outcome = "raise"
    THEN [ret |-> FALSE, cache |-> c,
          fetch |-> <<[name |-> resource_name, outcome |-> outcome]>>]
    ELSE [ret |-> TRUE,
          cache |-> IF outcome = "ok" THEN c \cup {resource_name} ELSE c,
          fetch |-> <<[name |-> resource_name, outcome |-> outcome]>>]

\* download_nltk_resource, as a function of the cache and of what the
\* toolkit's download would do: the return value, the cache afterwards and
\* the download calls made.
download_nltk_resource(resource_name, c, outcome) ==
    IF nltk_data_find(resource_name, c)
    THEN [ret |-> TRUE, cache |-> c, fetch |-> <<>>]
    ELSE IF outcome = "raise"
         THEN [ret |-> FALSE, cache |-> c,
               fetch |-> <<[name |-> resource_name, outcome |-> outcome]>>]
         ELSE [ret |-> TRUE,
               cache |-> IF outcome = "ok" THEN c \cup {resource_name} ELSE c,
               fetch |-> <<[name |-> resource_name, outcome |-> outcome]>>]

\* Mutant: the flag keeps only the last return value.
LastResultOnly(flag, ret) == ret

\* Lines 46-47: if not download_nltk_resource(resource): all_success = False
UpdateAllSuccess(flag, ret) == IF ~ret THEN FALSE ELSE flag

----------------------------------------------------------------------------
(* String helpers *)

lower(ch) == IF ch = "A" THEN "a" ELSE ch

str_lower(s) == [i \in 1..Len(s) |-> lower(s[i])]

\* str.isalnum: non-empty and every character alphanumeric
str_isalnum(s) == Len(s) > 0 /\ \A i \in 1..Len(s) : s[i] \in Letters

RECURSIVE SplitFrom(_, _, _)
SplitFrom(s, i, cur) ==
    IF i > Len(s)
    THEN IF cur = <<>> THEN <<>> ELSE <<cur>>
    ELSE IF s[i] \in Whitespace
         THEN (IF cur = <<>> THEN <<>> ELSE <<cur>>) \o SplitFrom(s, i + 1, <<>>)
         ELSE SplitFrom(s, i + 1, Append(cur, s[i]))

RECURSIVE SplitSpaceFrom(_, _, _)
SplitSpaceFrom(s, i, cur) ==
    IF i > Len(s)
    THEN <<cur>>
    ELSE IF s[i] = " "
         THEN <<cur>> \o SplitSpaceFrom(s, i + 1, <<>>)
         ELSE SplitSpaceFrom(s, i + 1, Append(cur, s[i]))

\* Mutant: user_text.split(" "), which keeps the empty strings between,
\* before and after the separators.
str_split_single_space(s) == SplitSpaceFrom(s, 1, <<>>)

\* user_text.split(): the runs of non-whitespace characters
str_split(s) == SplitFrom(s, 1, <<>>)

RECURSIVE JoinFrom(_, _, _)
JoinFrom(sep, ws, i) ==
    IF i > Len(ws) THEN <<>>
    ELSE IF i = Len(ws) THEN ws[i]
    ELSE ws[i] \o sep \o JoinFrom(sep, ws, i + 1)

\* sep.join(ws)
str_join(sep, ws) == JoinFrom(sep, ws, 1)

----------------------------------------------------------------------------
(* The toolkit's tools *)

\* stopwords.words("english"), restricted to the alphabet: "a", "as", "s"
English == {<<"a">>, <<"a", "s">>, <<"s">>}

RECURSIVE PiecesFrom(_, _, _)
PiecesFrom(w, i, cur) ==
    IF i > Len(w)
    THEN IF cur = <<>> THEN <<>> ELSE <<cur>>
    ELSE IF w[i] \in Punct
         THEN (IF cur = <<>> THEN <<>> ELSE <<cur>>) \o <<(<<w[i]>>)>>
              \o PiecesFrom(w, i + 1, <<>>)
         ELSE PiecesFrom(w, i + 1, Append(cur, w[i]))

RECURSIVE FlattenFrom(_, _)
FlattenFrom(ws, i) ==
    IF i > Len(ws) THEN <<>>
    ELSE PiecesFrom(ws[i], 1, <<>>) \o FlattenFrom(ws, i + 1)

\* word_tokenize: words, with punctuation characters as tokens of their own
word_tokenize(s) == FlattenFrom(str_split(s), 1)

\* porter.stem: lowercases, and strips a final "s" of a word of 3 letters or more
porter_stem(t) ==
    LET l == str_lower(t)
    IN IF Len(l) > 2 /\ l[Len(l)] = "s" THEN SubSeq(l, 1, Len(l) - 1) ELSE l

\* lemmatizer.lemmatize: keeps the case, and strips a final "s" ("as" -> "a")
wordnet_lemmatize(t) ==
    IF Len(t) > 1 /\ t[Len(t)] = "s" THEN SubSeq(t, 1, Len(t) - 1) ELSE t

TagOf(t) ==
    IF t[1] \in Punct THEN "."
    ELSE IF t[1] \in Upper THEN "NNP"
    ELSE "NN"

\* pos_tag: one (token, tag) pair per token
pos_tag(toks) == [i \in 1..Len(toks) |-> <<toks[i], TagOf(toks[i])>>]

Group(run) == [kind |-> "tree", label |-> "PERSON", leaves |-> run]
Plain(pair) == [kind |-> "pair", label |-> "", leaves |-> <<pair>>]

RECURSIVE ChunkFrom(_, _, _)
ChunkFrom(tagged, i, run) ==
    IF i > Len(tagged)
    THEN IF run = <<>> THEN <<>> ELSE <<Group(run)>>
    ELSE IF tagged[i][2] = "NNP"
         THEN ChunkFrom(tagged, i + 1, Append(run, tagged[i]))
         ELSE (IF run = <<>> THEN <<>> ELSE <<Group(run)>>)
              \o <<Plain(tagged[i])>> \o ChunkFrom(tagged, i + 1, <<>>)

\* ne_chunk: the children of the tree's root; each maximal run of proper
\* nouns is a labeled group, every other pair a plain child
ne_chunk(tagged) == ChunkFrom(tagged, 1, <<>>)

----------------------------------------------------------------------------
(* The stages' own code *)

\* Mutant: the lowercasing is forgotten.
filter_case_sensitive(toks, sw) ==
    SelectSeq(toks, LAMBDA word : word \notin sw /\ str_isalnum(word))

\* Line 100: [word for word in tokens
\*            if word.lower() not in stop_words and word.isalnum()]
filter_tokens(toks, sw) ==
    SelectSeq(toks, LAMBDA word : str_lower(word) \notin sw /\ str_isalnum(word))

\* Line 109: [porter.stem(tkn) for tkn in filtered_tokens]
stem_all(filtered) == [i \in 1..Len(filtered) |-> porter_stem(filtered[i])]

\* Mutant: the lemmatizer is fed the stems.
lemmatize_stems(filtered) ==
    [i \in 1..Len(filtered) |-> wordnet_lemmatize(porter_stem(filtered[i]))]

\* Line 118: [lemmatizer.lemmatize(tkn) for tkn in filtered_tokens]
lemmatize_all(filtered) ==
    [i \in 1..Len(filtered) |-> wordnet_lemmatize(filtered[i])]

\* Mutant: only the alphanumeric tokens get the fallback tag.
pos_tag_fallback_alnum(toks) ==
    LET kept == SelectSeq(toks, str_isalnum)
    IN [i \in 1..Len(kept) |-> <<kept[i], "UNK">>]

\* Line 145: [(token, "UNK") for token in tokens]
pos_tag_fallback(toks) == [i \in 1..Len(toks) |-> <<toks[i], "UNK">>]

LeafTokens(node) == [i \in 1..Len(node.leaves) |-> node.leaves[i][1]]

RECURSIVE ExtractAllFrom(_, _)
ExtractAllFrom(tree, i) ==
    IF i > Len(tree) THEN <<>>
    ELSE <<(<<str_join(<<" ">>, LeafTokens(tree[i])), tree[i].label>>)>>
         \o ExtractAllFrom(tree, i + 1)

\* Mutant: the hasattr test is dropped, every child yields an entry.
extract_every_child(tree) == ExtractAllFrom(tree, 1)

RECURSIVE ExtractFrom(_, _)
ExtractFrom(tree, i) ==
    IF i > Len(tree) THEN <<>>
    ELSE (IF tree[i].kind = "tree"
          THEN <<(<<str_join(<<" ">>, LeafTokens(tree[i])), tree[i].label>>)>>
          ELSE <<>>)
         \o ExtractFrom(tree, i + 1)

\* Lines 163-168: the loop over the root's children
extract_entities(tree) == ExtractFrom(tree, 1)

----------------------------------------------------------------------------
(* The script *)

Section(name, content) == [section |-> name, content |-> content]

FreshRun ==
    /\ pc = "provision"
    /\ idx = 1
    /\ calls = <<>>
    /\ results = <<>>
    /\ fetches = <<>>
    /\ all_success = TRUE
    /\ status_msg = "none"
    /\ stop_words = {}
    /\ user_text = <<>>
    /\ tokens = <<>>
    /\ tokenizer_failed = FALSE
    /\ filtered_tokens = <<>>
    /\ stemmed_tokens = <<>>
    /\ lemmatized_tokens = <<>>
    /\ pos_tagged_tokens = <<>>
    /\ tagger_failed = FALSE
    /\ ner_tree = <<>>
    /\ named_entities = <<>>
    /\ page = <<>>
    /\ raised = "none"

Init ==
    /\ cache \in SUBSET Resources
    /\ warm = {}
    /\ typed = DefaultText
    /\ FreshRun

\* Lines 45-47: one iteration of the loop
Provision ==
    /\ pc = "provision"
    /\ idx <= Len(resources)
    /\ \E outcome \in FetchOutcomes :
         LET r == download_nltk_resource(resources[idx], cache, outcome)
         IN /\ cache' = r.cache
            /\ calls' = Append(calls, resources[idx])
            /\ results' = Append(results, r.ret)
            /\ fetches' = fetches \o r.fetch
            /\ all_success' = UpdateAllSuccess(all_success, r.ret)
    /\ idx' = idx + 1
    /\ pc' = IF idx = Len(resources) THEN "report" ELSE "provision"
    /\ UNCHANGED <<warm, typed, status_msg, stop_words, page, raised>>
    /\ UNCHANGED pipelineVars

\* Lines 50-53
ReportStatus ==
    /\ pc = "report"
    /\ status_msg' = IF all_success THEN "success" ELSE "warning"
    /\ pc' = "init_tools"
    /\ UNCHANGED <<cache, warm, typed, idx, calls, results, fetches,
                   all_success, stop_words, page, raised>>
    /\ UNCHANGED pipelineVars

\* Lines 56-58: stopwords.words("english") loads the stopwords corpus
InitTools ==
    /\ pc = "init_tools"
    /\ IF "stopwords" \in cache
       THEN /\ stop_words' = English
            /\ pc' = "input"
            /\ raised' = raised
       ELSE /\ stop_words' = stop_words
            /\ pc' = "aborted"
            /\ raised' = "LookupError"
    /\ UNCHANGED <<cache, warm, typed, page>>
    /\ UNCHANGED provisionVars
    /\ UNCHANGED pipelineVars

\* Lines 68-78
ReadInput ==
    /\ pc = "input"
    /\ user_text' = typed
    /\ IF typed # <<>>
       THEN /\ page' = Append(page, Section("original", "text"))
            /\ pc' = "tokenize"
       ELSE /\ page' = page
            /\ pc' = "done"
    /\ UNCHANGED <<cache, warm, typed, stop_words, raised, tokens,
                   tokenizer_failed, filtered_tokens, stemmed_tokens,
                   lemmatized_tokens, pos_tagged_tokens, tagger_failed,
                   ner_tree, named_entities>>
    /\ UNCHANGED provisionVars

\* Lines 81-94
Tokenize ==
    /\ pc = "tokenize"
    /\ IF "punkt" \in cache
       THEN /\ tokens' = word_tokenize(user_text)
            /\ tokenizer_failed' = FALSE
            /\ page' = Append(page, Section("tokenization", "result"))
       ELSE /\ tokens' = str_split(user_text)
            /\ tokenizer_failed' = TRUE
            /\ page' = Append(page, Section("tokenization", "fallback"))
    /\ pc' = "stopwords"
    /\ UNCHANGED <<cache, warm, typed, stop_words, raised, user_text,
                   filtered_tokens, stemmed_tokens, lemmatized_tokens,
                   pos_tagged_tokens, tagger_failed, ner_tree, named_entities>>
    /\ UNCHANGED provisionVars

\* Lines 97-102
RemoveStopwords ==
    /\ pc = "stopwords"
    /\ filtered_tokens' = filter_tokens(tokens, stop_words)
    /\ page' = Append(page, Section("stopword removal", "result"))
    /\ pc' = "stem"
    /\ UNCHANGED <<cache, warm, typed, stop_words, raised, user_text, tokens,
                   tokenizer_failed, stemmed_tokens, lemmatized_tokens,
                   pos_tagged_tokens, tagger_failed, ner_tree, named_entities>>
    /\ UNCHANGED provisionVars

\* Lines 105-111
Stem ==
    /\ pc = "stem"
    /\ stemmed_tokens' = stem_all(filtered_tokens)
    /\ page' = Append(page, Section("stemming", "result"))
    /\ pc' = "lemmatize"
    /\ UNCHANGED <<cache, warm, typed, stop_words, raised, user_text, tokens,
                   tokenizer_failed, filtered_tokens, lemmatized_tokens,
                   pos_tagged_tokens, tagger_failed, ner_tree, named_entities>>
    /\ UNCHANGED provisionVars

\* Lines 114-120: the first lemmatize call loads the wordnet corpus; nothing
\* catches its LookupError, and the subheader is already on the page
Lemmatize ==
    /\ pc = "lemmatize"
    /\ IF "wordnet" \in cache \/ filtered_tokens = <<>>
       THEN /\ lemmatized_tokens' = lemmatize_all(filtered_tokens)
            /\ page' = Append(page, Section("lemmatization", "result"))
            /\ pc' = "pos_tag"
            /\ raised' = raised
       ELSE /\ lemmatized_tokens' = lemmatized_tokens
            /\ page' = Append(page, Section("lemmatization", "traceback"))
            /\ pc' = "aborted"
            /\ raised' = "LookupError"
    /\ UNCHANGED <<cache, warm, typed, stop_words, user_text, tokens,
                   tokenizer_failed, filtered_tokens, stemmed_tokens,
                   pos_tagged_tokens, tagger_failed, ner_tree, named_entities>>
    /\ UNCHANGED provisionVars

\* Lines 123-148
PosTag ==
    /\ pc = "pos_tag"
    /\ IF "averaged_perceptron_tagger" \in cache
       THEN /\ pos_tagged_tokens' = pos_tag(tokens)
            /\ tagger_failed' = FALSE
            /\ page' = Append(page, Section("pos tagging", "result"))
       ELSE /\ pos_tagged_tokens' = pos_tag_fallback(tokens)
            /\ tagger_failed' = TRUE
            /\ page' = Append(page, Section("pos tagging", "fallback"))
    /\ pc' = "ner"
    /\ UNCHANGED <<cache, warm, typed, stop_words, raised, user_text, tokens,
                   tokenizer_failed, filtered_tokens, stemmed_tokens,
                   lemmatized_tokens, ner_tree, named_entities>>
    /\ UNCHANGED provisionVars

\* Lines 151-180
Ner ==
    /\ pc = "ner"
    /\ IF {"maxent_ne_chunker", "words"} \subseteq cache
       THEN LET tree == ne_chunk(pos_tagged_tokens)
                found == extract_entities(tree)
            IN /\ ner_tree' = tree
               /\ named_entities' = found
               /\ page' = Append(page, Section("ner",
                             IF found # <<>> THEN "result" ELSE "none detected"))
       ELSE /\ ner_tree' = ner_tree
            /\ named_entities' = named_entities
            /\ page' = Append(page, Section("ner", "error"))
    /\ pc' = "done"
    /\ UNCHANGED <<cache, warm, typed, stop_words, raised, user_text, tokens,
                   tokenizer_failed, filtered_tokens, stemmed_tokens,
                   lemmatized_tokens, pos_tagged_tokens, tagger_failed>>
    /\ UNCHANGED provisionVars

FetchedOk == {fetches[i].name : i \in {j \in 1..Len(fetches) : fetches[j].outcome = "ok"}}

\* Streamlit runs the script again, from the top, when the user submits a
\* text; the resource cache is on disk and outlives the run
Rerun ==
    /\ pc \in {"done", "aborted"}
    /\ typed' \in SampleTexts
    /\ warm' = warm \cup FetchedOk
    /\ cache' = cache
    /\ pc' = "provision"
    /\ idx' = 1
    /\ calls' = <<>>
    /\ results' = <<>>
    /\ fetches' = <<>>
    /\ all_success' = TRUE
    /\ status_msg' = "none"
    /\ stop_words' = {}
    /\ user_text' = <<>>
    /\ tokens' = <<>>
    /\ tokenizer_failed' = FALSE
    /\ filtered_tokens' = <<>>
    /\ stemmed_tokens' = <<>>
    /\ lemmatized_tokens' = <<>>
    /\ pos_tagged_tokens' = <<>>
    /\ tagger_failed' = FALSE
    /\ ner_tree' = <<>>
    /\ named_entities' = <<>>
    /\ page' = <<>>
    /\ raised' = "none"

Next ==
    \/ Provision
    \/ ReportStatus
    \/ InitTools
    \/ ReadInput
    \/ Tokenize
    \/ RemoveStopwords
    \/ Stem
    \/ Lemmatize
    \/ PosTag
    \/ Ner
    \/ Rerun

Spec == Init /\ [][Next]_vars

----------------------------------------------------------------------------
(* The pipeline on its own: the states in which the script reaches line 68 *)
(* when the registry is unreachable (every missing resource stays missing, *)
(* its fetch raising), for every cache that lets line 58 load the          *)
(* stopwords, and every text of the bounded alphabet in the text area.     *)

MissingFrom(c) == SelectSeq(resources, LAMBDA r : r \notin c)

StartupDone(c) ==
    /\ cache = c
    /\ warm = {}
    /\ pc = "input"
    /\ idx = Len(resources) + 1
    /\ calls = resources
    /\ results = [i \in 1..Len(resources) |-> resources[i] \in c]
    /\ fetches = [i \in 1..Len(MissingFrom(c)) |->
                    [name |-> MissingFrom(c)[i], outcome |-> "raise"]]
    /\ all_success = (c = Resources)
    /\ status_msg = IF c = Resources THEN "success" ELSE "warning"
    /\ stop_words = English
    /\ user_text = <<>>
    /\ tokens = <<>>
    /\ tokenizer_failed = FALSE
    /\ filtered_tokens = <<>>
    /\ stemmed_tokens = <<>>
    /\ lemmatized_tokens = <<>>
    /\ pos_tagged_tokens = <<>>
    /\ tagger_failed = FALSE
    /\ ner_tree = <<>>
    /\ named_entities = <<>>
    /\ page = <<>>
    /\ raised = "none"

InitPipeline ==
    /\ typed \in Texts
    /\ \E c \in {d \in SUBSET Resources : "stopwords" \in d} : StartupDone(c)

NextPipeline ==
    \/ ReadInput
    \/ Tokenize
    \/ RemoveStopwords
    \/ Stem
    \/ Lemmatize
    \/ PosTag
    \/ Ner

SpecPipeline == InitPipeline /\ [][NextPipeline]_vars

----------------------------------------------------------------------------
(* Properties *)

StageSections == {"tokenization", "stopword removal", "stemming",
                  "lemmatization", "pos tagging", "ner"}

Rendered(name) == \E i \in 1..Len(page) : page[i].section = name

RenderedAs(name, contents) ==
    \E i \in 1..Len(page) : page[i].section = name /\ page[i].content \in contents

RunEnded == pc \in {"done", "aborted"}

\* C1: once a non-empty text has been read, the run ends without an uncaught
\* exception and with all six stage sections on the page, each holding a
\* result, an empty list or an error notice.
C1_EveryStageRendered ==
    (RunEnded /\ user_text # <<>>) =>
        /\ raised = "none"
        /\ \A name \in StageSections :
             RenderedAs(name, {"result", "fallback", "none detected", "error"})

\* C2: every call of download_nltk_resource made so far returned true exactly
\* when its resource is in the cache after the call.
C2_ReturnsPresence ==
    \A i \in 1..Len(results) : results[i] = (calls[i] \in cache)

\* C3: whatever provisioning left in the cache, a run whose text area holds a
\* non-empty text reads it and starts the pipeline: a run never ends before
\* the tokenization section.
C3_PipelineAlwaysRuns ==
    (RunEnded /\ typed # <<>>) => (user_text = typed /\ Rendered("tokenization"))

\* C4: the calls made so far are the resources of the list, in list order,
\* once each; all six have been made once the loop is left, whatever they
\* returned; and all_success is the conjunction of the return values.
C4_OneCallEachAndFlag ==
    /\ Len(calls) <= Len(resources)
    /\ calls = SubSeq(resources, 1, Len(calls))
    /\ Len(results) = Len(calls)
    /\ (pc # "provision") => calls = resources
    /\ all_success = (\A i \in 1..Len(results) : results[i])

\* C4 witness: the first call returned false, the five others were still made,
\* the last returned true and the flag is false.
C4_Witness ==
    /\ pc = "report"
    /\ Len(results) = Len(resources)
    /\ ~results[1]
    /\ results[Len(resources)]
    /\ ~all_success

IsRun(s, i, j) ==
    /\ i <= j
    /\ \A k \in i..j : s[k] \notin Whitespace
    /\ i = 1 \/ s[i - 1] \in Whitespace
    /\ j = Len(s) \/ s[j + 1] \in Whitespace

RunStarts(s) == {i \in 1..Len(s) : \E j \in i..Len(s) : IsRun(s, i, j)}

\* toks are the maximal runs of non-whitespace characters of s, left to right
IsWhitespaceSplit(toks, s) ==
    /\ Len(toks) = Cardinality(RunStarts(s))
    /\ \A n \in 1..Len(toks) :
         \E i \in 1..Len(s) : \E j \in i..Len(s) :
            /\ IsRun(s, i, j)
            /\ Cardinality({k \in RunStarts(s) : k < i}) = n - 1
            /\ toks[n] = SubSeq(s, i, j)

\* The claim's predicate: lowercased form not a stopword, and alphanumeric only
Kept(word) ==
    /\ [i \in 1..Len(word) |-> IF word[i] \in Upper THEN "a" ELSE word[i]]
         \notin English
    /\ \A i \in 1..Len(word) : word[i] \notin (Punct \cup Whitespace)

KeptPositions(toks) == {i \in 1..Len(toks) : Kept(toks[i])}

\* filtered is the kept tokens of toks, each once, in their order
IsKeptSubsequence(filtered, toks) ==
    /\ Len(filtered) = Cardinality(KeptPositions(toks))
    /\ \A i \in KeptPositions(toks) :
         filtered[Cardinality({k \in KeptPositions(toks) : k <= i})] = toks[i]

FirstOfEach(pairs) == [i \in 1..Len(pairs) |-> pairs[i][1]]

\* C6: after a tokenizer failure tokens is the whitespace split of the text,
\* and it is that sequence the stopword filter and the tagger have read.
C6_FallbackIsWhitespaceSplit ==
    tokenizer_failed =>
        /\ IsWhitespaceSplit(tokens, user_text)
        /\ Rendered("stopword removal") =>
             IsKeptSubsequence(filtered_tokens, tokens)
        /\ Rendered("pos tagging") => FirstOfEach(pos_tagged_tokens) = tokens

\* C6 witness: the fallback produced two tokens or more, one of them holding a
\* punctuation character, and the filter and the tagger have run.
C6_Witness ==
    /\ tokenizer_failed
    /\ Len(tokens) >= 2
    /\ \E n \in 1..Len(tokens) : Len(tokens[n]) >= 2 /\ ~str_isalnum(tokens[n])
    /\ Rendered("stopword removal")
    /\ Rendered("pos tagging")

\* C7: once the tagging stage has run, there is one pair per token, the i-th
\* carrying the i-th token; after a tagger failure every tag is "UNK".
C7_OnePairPerToken ==
    Rendered("pos tagging") =>
        /\ Len(pos_tagged_tokens) = Len(tokens)
        /\ \A i \in 1..Len(tokens) : pos_tagged_tokens[i][1] = tokens[i]
        /\ tagger_failed =>
             \A i \in 1..Len(pos_tagged_tokens) : pos_tagged_tokens[i][2] = "UNK"

\* C7 witness: the tagger failed on a sequence that holds a stopword and a
\* punctuation token, which the filter dropped.
C7_Witness ==
    /\ Rendered("pos tagging")
    /\ tagger_failed
    /\ Len(tokens) >= 2
    /\ Len(filtered_tokens) < Len(tokens)
    /\ \E i \in 1..Len(tokens) : ~str_isalnum(tokens[i])

\* C8: the filtered sequence is the tokens whose lowercased form is not a
\* stopword and which are alphanumeric throughout, each once, in their order.
C8_FilterIsKeptSubsequence ==
    Rendered("stopword removal") => IsKeptSubsequence(filtered_tokens, tokens)

\* C8 witness: a token was kept, a capitalised stopword and a punctuation
\* token were dropped.
C8_Witness ==
    /\ Rendered("stopword removal")
    /\ Len(filtered_tokens) >= 1
    /\ \E i \in 1..Len(tokens) : tokens[i] \notin English /\ str_lower(tokens[i]) \in English
    /\ \E i \in 1..Len(tokens) : ~str_isalnum(tokens[i])

LabeledPositions == {i \in 1..Len(ner_tree) : ner_tree[i].kind = "tree"}

\* C9: after a successful chunking the list holds one pair per labeled child
\* of the root, in order: the leaf tokens joined by one space, and the label.
\* Plain children add nothing; with no labeled child the list is empty and
\* the section says so instead of reporting an error.
C9_EntitiesAreLabeledChildren ==
    RenderedAs("ner", {"result", "none detected"}) =>
        /\ Len(named_entities) = Cardinality(LabeledPositions)
        /\ \A i \in LabeledPositions :
             LET n == Cardinality({k \in LabeledPositions : k <= i})
             IN /\ named_entities[n][2] = ner_tree[i].label
                /\ SplitSpaceFrom(named_entities[n][1], 1, <<>>)
                     = LeafTokens(ner_tree[i])
        /\ (LabeledPositions = {}) <=> RenderedAs("ner", {"none detected"})

\* C9 witness: the tree holds a group of two tokens and a plain child.
C9_Witness ==
    /\ RenderedAs("ner", {"result"})
    /\ \E i \in 1..Len(ner_tree) : ner_tree[i].kind = "pair"
    /\ \E i \in LabeledPositions : Len(ner_tree[i].leaves) = 2

\* C10: once the lemmatization stage has produced its list, stems and lemmas
\* are as many as the filtered tokens, the i-th stem being the stem of the
\* i-th filtered token and the i-th lemma the lemma of the i-th filtered token.
C10_StemAndLemmaOfFiltered ==
    RenderedAs("lemmatization", {"result"}) =>
        /\ Len(stemmed_tokens) = Len(filtered_tokens)
        /\ Len(lemmatized_tokens) = Len(filtered_tokens)
        /\ \A i \in 1..Len(filtered_tokens) :
             /\ stemmed_tokens[i] = porter_stem(filtered_tokens[i])
             /\ lemmatized_tokens[i] = wordnet_lemmatize(filtered_tokens[i])

\* C10 witness: a filtered token whose lemma differs from the lemma of its stem.
C10_Witness ==
    /\ RenderedAs("lemmatization", {"result"})
    /\ \E i \in 1..Len(lemmatized_tokens) :
         lemmatized_tokens[i] # wordnet_lemmatize(stemmed_tokens[i])

====
